---- MODULE Spec2Model ----
(***************************************************************************)
(* A model of web2txt.py: validate_url, sanitize_filename, fetch_webpage,  *)
(* extract_text_from_html, save_text_to_file and main.                     *)
(*                                                                         *)
(* Python strings are sequences of one-character strings, so that prefix   *)
(* tests, substring tests, stripping and splitting are computed.           *)
(***************************************************************************)
EXTENDS Integers, Sequences, FiniteSets, TLC

VARIABLES
    \* one run of main()
    pc,               \* where the run is
    argv,             \* sys.argv
    url,              \* main's url
    output_filename,  \* main's output_filename (<<>> stands for None)
    resp,             \* what the server and the HTTP library deliver
    total_size,       \* fetch_webpage's total_size
    pbar_n,           \* the progress bar's counter, as long as content
    html_content,     \* the decoded page
    extracted,        \* what extract_text_from_html returned
    text_content,     \* main's text_content
    file,             \* the output file on disk
    stdout,           \* the lines printed
    exit_status,      \* the process exit status (-1 while running)
    raised,           \* the exception that reached main's handlers
    cause,            \* the request failure behind it: its kind and status
    stages,           \* the stages entered so far
    \* one call of a single function
    call,             \* where the call is
    arg,              \* the argument
    ret,              \* the result
    ret2              \* the result of applying the function to its result

mainVars == <<pc, argv, url, output_filename, resp, total_size, pbar_n, html_content,
              extracted, text_content, file, stdout, exit_status, raised, cause, stages>>
fnVars == <<call, arg, ret, ret2>>
vars == <<mainVars, fnVars>>

NoExc == [type |-> "none", stage |-> "none", category |-> "none", code |-> 0, about |-> <<>>]
NoCause == [kind |-> "none", status |-> 0]
NoResp == [outcome |-> "none"]
NoFile == [exists |-> FALSE, content |-> <<>>, opens |-> 0, writes |-> 0]
NoPage == [parses |-> TRUE, nodes |-> <<>>]

\* no run of main() is going on
MainIdle ==
    /\ pc = "idle" /\ argv = <<>> /\ url = <<>> /\ output_filename = <<>>
    /\ resp = NoResp /\ total_size = 0 /\ pbar_n = 0 /\ html_content = NoPage
    /\ extracted = <<>> /\ text_content = <<>> /\ file = NoFile /\ stdout = <<>>
    /\ exit_status = -1 /\ raised = NoExc /\ cause = NoCause /\ stages = <<>>

\* no single-function call is going on
FnIdle == call = "idle" /\ arg = <<>> /\ ret = <<>> /\ ret2 = <<>>

(***************************************************************************)
(* String helpers (Python str methods used by the source).                 *)
(***************************************************************************)
Lowercase == {"a","b","c","d","e","f","g","h","i","j","k","l","m",
              "n","o","p","q","r","s","t","u","v","w","x","y","z"}
Uppercase == {"A","B","C","D","E","F","G","H","I","J","K","L","M",
              "N","O","P","Q","R","S","T","U","V","W","X","Y","Z"}
Digits == {"0","1","2","3","4","5","6","7","8","9"}

\* every finite sequence over S of length at most n
SeqsUpTo(S, n) == UNION {[1..k -> S] : k \in 0..n}

\* n copies of the character c
Rep(c, n) == [i \in 1..n |-> c]

\* str.startswith(p)
StartsWith(s, p) == Len(s) >= Len(p) /\ SubSeq(s, 1, Len(p)) = p

\* s[n:]
Drop(s, n) == SubSeq(s, n + 1, Len(s))

\* str.lstrip(chars) / str.rstrip(chars) / str.strip(chars); written without
\* recursion, since the strings of sanitize_filename are over 100 characters long
LStrip(s, C) ==
    LET keep == {i \in 1..Len(s) : s[i] \notin C}
    IN  IF keep = {} THEN <<>>
        ELSE SubSeq(s, CHOOSE i \in keep : \A j \in keep : i <= j, Len(s))

RStrip(s, C) ==
    LET keep == {i \in 1..Len(s) : s[i] \notin C}
    IN  IF keep = {} THEN <<>>
        ELSE SubSeq(s, 1, CHOOSE i \in keep : \A j \in keep : j <= i)

Strip(s, C) == RStrip(LStrip(s, C), C)

(***************************************************************************)
(* sanitize_filename                                                       *)
(***************************************************************************)
HTTP == <<"h","t","t","p",":","/","/">>
HTTPS == <<"h","t","t","p","s",":","/","/">>
SUFFIX == <<"_","c","o","n","t","e","n","t",".","t","x","t">>

max_length == 100

\* re.sub(r'^https?://', '', url)
RemoveProtocol(u) ==
    IF StartsWith(u, HTTPS) THEN Drop(u, Len(HTTPS))
    ELSE IF StartsWith(u, HTTP) THEN Drop(u, Len(HTTP))
    ELSE u

\* the class [a-zA-Z0-9\-_]
SafeChars == Lowercase \cup Uppercase \cup Digits \cup {"-", "_"}

\* re.sub(r'[^a-zA-Z0-9\-_]', '_', clean_url)
ReplaceUnsafe(s) == [i \in 1..Len(s) |-> IF s[i] \in SafeChars THEN s[i] ELSE "_"]

\* re.sub(r'_+', '_', clean_url)
NotRepeatedUnderscore(e) == ~(e.c = "_" /\ e.prev = "_")

CollapseUnderscores(s) ==
    LET marked == [i \in 1..Len(s) |->
                      [c |-> s[i], prev |-> IF i > 1 THEN s[i - 1] ELSE ""]]
        kept == SelectSeq(marked, NotRepeatedUnderscore)
    IN  [i \in 1..Len(kept) |-> kept[i].c]

\* clean_url.strip('_')
StripUnderscores(s) == Strip(s, {"_"})

\* if len(clean_url) > max_length: clean_url = clean_url[:max_length]
Truncate_Off(s) == s
Truncate(s) == IF Len(s) > max_length THEN SubSeq(s, 1, max_length) ELSE s

\* the part of the filename before the suffix
CleanUrl(u) ==
    Truncate(StripUnderscores(CollapseUnderscores(ReplaceUnsafe(RemoveProtocol(u)))))

sanitize_filename(u) == CleanUrl(u) \o SUFFIX

(***************************************************************************)
(* SpecSanitize: sanitize_filename applied to a URL, then to its result.   *)
(***************************************************************************)
MaxTail == 2
PadSlack == 2

SanChars == {"a", "_", ".", "/"}
SanProtos == {<<>>, HTTP, HTTPS}
SanHeads == {<<>>, <<".">>, <<"_", "a">>}
SanPads == {0} \cup ((max_length - PadSlack)..(max_length + PadSlack))

SanInputs ==
    {p \o h \o Rep("a", n) \o t :
        p \in SanProtos, h \in SanHeads, n \in SanPads, t \in SeqsUpTo(SanChars, MaxTail)}

InitSanitize ==
    /\ MainIdle
    /\ call = "init"
    /\ arg \in SanInputs
    /\ ret = <<>>
    /\ ret2 = <<>>

CallSanitize ==
    /\ call = "init"
    /\ ret' = sanitize_filename(arg)
    /\ call' = "called"
    /\ UNCHANGED <<arg, ret2, mainVars>>

CallSanitizeAgain ==
    /\ call = "called"
    /\ ret2' = sanitize_filename(ret)
    /\ call' = "recalled"
    /\ UNCHANGED <<arg, ret, mainVars>>

NextSanitize == CallSanitize \/ CallSanitizeAgain

SpecSanitize == InitSanitize /\ [][NextSanitize]_vars

\* the result without its fixed suffix
Stem(name) == SubSeq(name, 1, Len(name) - Len(SUFFIX))

\* C6 (as stated): re-sanitizing the sanitizer's own output gives it back,
\* sanitize_filename(sanitize_filename(u)) = sanitize_filename(u).
C6_Idempotent == call = "recalled" => ret2 = ret

\* C6 (amended): the result ends with the suffix "_content.txt" and the part
\* before it is at most 100 characters long; re-sanitizing the result gives the
\* result back exactly when that part is 100 characters long (a shorter one
\* takes in the sanitized suffix, and a second suffix is appended).
C6_BoundedAndIdempotentAtLimit ==
    /\ call # "init" =>
        /\ Len(ret) >= Len(SUFFIX)
        /\ SubSeq(ret, Len(ret) - Len(SUFFIX) + 1, Len(ret)) = SUFFIX
        /\ Len(Stem(ret)) <= 100
    /\ call = "recalled" => (ret2 = ret <=> Len(Stem(ret)) = 100)

\* C6 witness: a URL long enough to be truncated has been sanitized twice.
C6_Witness ==
    /\ call = "recalled"
    /\ Len(RemoveProtocol(arg)) > 100
    /\ Len(Stem(ret)) = 100

(***************************************************************************)
(* validate_url, with urllib.parse.urlparse as far as its netloc goes      *)
(***************************************************************************)
\* str.find over a set of characters, from position start: 0 when none occurs
FindAny(s, C, start) ==
    LET hits == {i \in start..Len(s) : s[i] \in C}
    IN  IF hits = {} THEN 0 ELSE CHOOSE i \in hits : \A j \in hits : i <= j

\* url.replace(b, "") for b in the tab, CR and LF characters
RemoveUnsafeBytes(s) == SelectSeq(s, LAMBDA c : c \notin {"\t", "\r", "\n"})

C0ControlOrSpace == {" ", "\t", "\r", "\n"}
SchemeChars == Lowercase \cup Uppercase \cup Digits \cup {"+", "-", "."}

\* urlsplit: the URL once its scheme and the colon after it are taken off
AfterScheme(u) ==
    LET i == FindAny(u, {":"}, 1)
    IN  IF /\ i > 1
           /\ u[1] \in Lowercase \cup Uppercase
           /\ \A k \in 1..(i - 1) : u[k] \in SchemeChars
        THEN Drop(u, i)
        ELSE u

\* urlparse(url).netloc, or the ValueError urlsplit raises for a lone bracket
\* (the inputs of this model hold no "]", so no bracketed host is ever checked)
urlparse_netloc(u) ==
    LET rest == AfterScheme(RemoveUnsafeBytes(LStrip(u, C0ControlOrSpace)))
        delim == FindAny(rest, {"/", "?", "#"}, 3)
        netloc == IF StartsWith(rest, <<"/", "/">>)
                  THEN SubSeq(rest, 3, IF delim = 0 THEN Len(rest) ELSE delim - 1)
                  ELSE <<>>
        has(c) == \E k \in 1..Len(netloc) : netloc[k] = c
    IN  IF has("[") # has("]")
        THEN [ok |-> FALSE, exc |-> "ValueError", msg |-> "Invalid IPv6 URL"]
        ELSE [ok |-> TRUE, value |-> netloc]

\* url.startswith(('http://', 'https://'))
HasProtocol(u) == StartsWith(u, HTTP) \/ StartsWith(u, HTTPS)

\* if not parsed.netloc
EmptyNetloc_Never(netloc) == FALSE
EmptyNetloc(netloc) == netloc = <<>>

validate_url(u) ==
    IF u = <<>>
    THEN [ok |-> FALSE, exc |-> "ValueError", msg |-> "URL cannot be empty"]
    ELSE LET full == IF HasProtocol(u) THEN u ELSE HTTPS \o u
             parsed == urlparse_netloc(full)
         IN  IF ~parsed.ok THEN parsed
             ELSE IF EmptyNetloc(parsed.value)
             THEN [ok |-> FALSE, exc |-> "ValueError", msg |-> "Invalid URL format"]
             ELSE [ok |-> TRUE, value |-> full]

(***************************************************************************)
(* SpecValidate: validate_url applied to a raw argument.                   *)
(***************************************************************************)
MaxUrlLen == 3

UrlChars == {"a", ".", ":", "/", "?", "#", "[", "\t"}
UrlProtos == {<<>>, HTTP, HTTPS, <<"h","t","t","p",":","/">>, <<"H","T","T","P",":","/","/">>}
UrlInputs == {p \o t : p \in UrlProtos, t \in SeqsUpTo(UrlChars, MaxUrlLen)}

\* the characters for which urlparse does nothing but cut at "/", "?" and "#"
PlainUrlChars == Lowercase \cup Uppercase \cup Digits \cup {".", "-", ":", "/", "?", "#"}

InitValidate ==
    /\ MainIdle
    /\ call = "init"
    /\ arg \in UrlInputs
    /\ ret = <<>>
    /\ ret2 = <<>>

CallValidate ==
    /\ call = "init"
    /\ ret' = validate_url(arg)
    /\ call' = "called"
    /\ UNCHANGED <<arg, ret2, mainVars>>

NextValidate == CallValidate

SpecValidate == InitValidate /\ [][NextValidate]_vars

\* C5 (as stated): every non-empty argument without "http://" or "https://" in
\* front is accepted and returned with "https://" in front; the empty one fails.
C5_EveryBareInputAccepted ==
    call = "called" =>
        /\ (arg # <<>> /\ ~StartsWith(arg, HTTP) /\ ~StartsWith(arg, HTTPS))
              => (ret.ok /\ ret.value = HTTPS \o arg)
        /\ arg = <<>> => (~ret.ok /\ ret.exc = "ValueError")

\* C5 (amended): a non-empty argument without "http://" or "https://" in front
\* is either returned with "https://" in front or refused with a ValueError
\* (Invalid-Input); it is refused whenever it begins with "/", "?" or "#" (the
\* host is then empty), and an argument of letters, digits and . - : / ? # is
\* accepted in every other case. The empty argument is refused.
C5_BareInputAcceptedUnlessHostEmpty ==
    call = "called" =>
        /\ (arg # <<>> /\ ~StartsWith(arg, HTTP) /\ ~StartsWith(arg, HTTPS)) =>
              /\ ret.ok => ret.value = HTTPS \o arg
              /\ ~ret.ok => ret.exc = "ValueError"
              /\ arg[1] \in {"/", "?", "#"} => ~ret.ok
              /\ ((\A k \in 1..Len(arg) : arg[k] \in PlainUrlChars)
                    /\ arg[1] \notin {"/", "?", "#"}) => ret.ok
        /\ arg = <<>> => (~ret.ok /\ ret.exc = "ValueError")

\* C5 witness: a bare host has been accepted with "https://" put in front.
C5_Witness ==
    /\ call = "called"
    /\ arg = <<"a", ".", "a">>
    /\ ret.ok /\ ret.value = HTTPS \o arg

(***************************************************************************)
(* extract_text_from_html: the whitespace clean-up                         *)
(***************************************************************************)
\* what str.strip() with no argument removes
Whitespace == {" ", "\t", "\n", "\r"}

\* str.splitlines(): "\r\n" is one line end, and a final line end leaves no
\* empty last line
RECURSIVE splitlines(_)
splitlines(s) ==
    LET i == FindAny(s, {"\n", "\r"}, 1)
        skip == IF s[i] = "\r" /\ i < Len(s) /\ s[i + 1] = "\n" THEN i + 1 ELSE i
    IN  IF s = <<>> THEN <<>>
        ELSE IF i = 0 THEN <<s>>
        ELSE <<SubSeq(s, 1, i - 1)>> \o splitlines(Drop(s, skip))

\* line.split("  "): cut at each two-space string, left to right
RECURSIVE SplitTwoSpaces(_)
SplitTwoSpaces(s) ==
    LET hits == {i \in 1..(Len(s) - 1) : s[i] = " " /\ s[i + 1] = " "}
        i == CHOOSE k \in hits : \A j \in hits : k <= j
    IN  IF hits = {} THEN <<s>>
        ELSE <<SubSeq(s, 1, i - 1)>> \o SplitTwoSpaces(Drop(s, i + 1))

\* phrase.strip()
StripPhrase_Off(s) == s
StripPhrase(s) == Strip(s, Whitespace)

\* ' '.join(parts)
RECURSIVE Join(_, _)
Join(parts, sep) ==
    IF parts = <<>> THEN <<>>
    ELSE IF Len(parts) = 1 THEN parts[1]
    ELSE parts[1] \o sep \o Join(Tail(parts), sep)

\* concatenation of a sequence of sequences
RECURSIVE Flatten(_)
Flatten(ss) == IF ss = <<>> THEN <<>> ELSE Head(ss) \o Flatten(Tail(ss))

\* lines, chunks and the join of the non-empty chunks
CleanWhitespace(text) ==
    LET raw == splitlines(text)
        lines == [i \in 1..Len(raw) |-> Strip(raw[i], Whitespace)]
        phrases == Flatten([i \in 1..Len(lines) |-> SplitTwoSpaces(lines[i])])
        chunks == [i \in 1..Len(phrases) |-> StripPhrase(phrases[i])]
    IN  Join(SelectSeq(chunks, LAMBDA c : c # <<>>), <<" ">>)

(***************************************************************************)
(* SpecClean: the clean-up applied to an extracted text.                   *)
(***************************************************************************)
MaxText == 5

TextChars == {"a", "b", " ", "\t", "\n"}

InitClean ==
    /\ MainIdle
    /\ call = "init"
    /\ arg \in SeqsUpTo(TextChars, MaxText)
    /\ ret = <<>>
    /\ ret2 = <<>>

CallClean ==
    /\ call = "init"
    /\ ret' = CleanWhitespace(arg)
    /\ call' = "called"
    /\ UNCHANGED <<arg, ret2, mainVars>>

NextClean == CallClean

SpecClean == InitClean /\ [][NextClean]_vars

\* The algorithm as specified: cut a line at each maximal run of two or more
\* spaces.
RECURSIVE SplitSpaceRuns(_)
SplitSpaceRuns(s) ==
    LET hits == {i \in 1..(Len(s) - 1) : s[i] = " " /\ s[i + 1] = " "}
        i == CHOOSE k \in hits : \A j \in hits : k <= j
        rest == LStrip(Drop(s, i - 1), {" "})
    IN  IF hits = {} THEN <<s>>
        ELSE <<SubSeq(s, 1, i - 1)>> \o SplitSpaceRuns(rest)

SpecifiedClean(text) ==
    LET raw == splitlines(text)
        lines == [i \in 1..Len(raw) |-> Strip(raw[i], Whitespace)]
        pieces == Flatten([i \in 1..Len(lines) |-> SplitSpaceRuns(lines[i])])
        trimmed == [i \in 1..Len(pieces) |-> Strip(pieces[i], Whitespace)]
    IN  Join(SelectSeq(trimmed, LAMBDA c : c # <<>>), <<" ">>)

\* C10: the cleaned text holds no two consecutive spaces, neither starts nor
\* ends with whitespace, and is what cutting each trimmed line at runs of two or
\* more spaces gives.
C10_CleanedText ==
    call = "called" =>
        /\ \A i \in 1..(Len(ret) - 1) : ~(ret[i] = " " /\ ret[i + 1] = " ")
        /\ ret # <<>> => (ret[1] \notin Whitespace /\ ret[Len(ret)] \notin Whitespace)
        /\ ret = SpecifiedClean(arg)

\* C10 witness: a text with a run of three spaces between two words, cleaned.
C10_Witness ==
    /\ call = "called"
    /\ arg = <<"a", " ", " ", " ", "b">>
    /\ ret = <<"a", " ", "b">>

(***************************************************************************)
(* extract_text_from_html: the node tree                                   *)
(*                                                                         *)
(* A parsed document is its nodes in document order, each with its depth   *)
(* below the soup object (1 for a top-level node), its tag ("#text" for a  *)
(* string) and, for a string, its text.  A node's subtree is the run of    *)
(* deeper nodes that follows it.                                           *)
(***************************************************************************)
\* soup(["script", "style"]): the matching tags, in document order
find_all(nodes, names) ==
    SelectSeq([i \in 1..Len(nodes) |-> i], LAMBDA i : nodes[i].tag \in names)

\* the nodes tag.decompose() destroys: the tag and everything below it
Subtree_TagOnly(nodes, i) == {i}
Subtree(nodes, i) ==
    {i} \cup {j \in (i + 1)..Len(nodes) :
                \A k \in (i + 1)..j : nodes[k].depth > nodes[i].depth}

\* for script in soup(["script", "style"]): script.decompose()
RECURSIVE DecomposeAll(_, _, _)
DecomposeAll(nodes, found, removed) ==
    IF found = <<>> THEN removed
    ELSE DecomposeAll(nodes, Tail(found), removed \cup Subtree(nodes, Head(found)))

\* soup.get_text(separator=' '): the strings still in the tree, joined
get_text(nodes, removed, separator) ==
    LET left == SelectSeq([i \in 1..Len(nodes) |-> i],
                          LAMBDA i : i \notin removed /\ nodes[i].tag = "#text")
    IN  Join([k \in 1..Len(left) |-> nodes[left[k]].text], separator)

\* html is [parses, nodes]: BeautifulSoup either builds the tree or raises
extract_text_from_html(html) ==
    IF ~html.parses
    THEN [ok |-> FALSE, exc |-> "Exception", msg |-> "Error parsing HTML"]
    ELSE LET nodes == html.nodes
             removed == DecomposeAll(nodes, find_all(nodes, {"script", "style"}), {})
         IN  [ok |-> TRUE, value |-> CleanWhitespace(get_text(nodes, removed, <<" ">>))]

(***************************************************************************)
(* SpecExtract: extract_text_from_html applied to a node tree whose        *)
(* strings are one distinct letter each.                                   *)
(***************************************************************************)
MaxNodes == 4

Letters == <<"a", "b", "c", "d", "e", "f", "g", "h">>
Tags == {"script", "style", "p", "#text"}

DepthSeqs(n) ==
    {d \in [1..n -> 1..n] : n > 0 => (d[1] = 1 /\ \A i \in 2..n : d[i] <= d[i - 1] + 1)}

\* the trees of n nodes: a string has no children
Trees(n) ==
    {[i \in 1..n |-> [depth |-> d[i], tag |-> t[i],
                      text |-> IF t[i] = "#text" THEN <<Letters[i]>> ELSE <<>>]] :
        <<d, t>> \in {x \in DepthSeqs(n) \X [1..n -> Tags] :
                        \A i \in 2..n : x[2][i - 1] = "#text" => x[1][i] <= x[1][i - 1]}}

InitExtract ==
    /\ MainIdle
    /\ call = "init"
    /\ \E n \in 0..MaxNodes : \E t \in Trees(n) : arg = [parses |-> TRUE, nodes |-> t]
    /\ ret = <<>>
    /\ ret2 = <<>>

CallExtract ==
    /\ call = "init"
    /\ ret' = extract_text_from_html(arg)
    /\ call' = "called"
    /\ UNCHANGED <<arg, ret2, mainVars>>

NextExtract == CallExtract

SpecExtract == InitExtract /\ [][NextExtract]_vars

\* the parent of node i: the nearest earlier node one level up (0: the soup)
Parent(nodes, i) ==
    LET up == {j \in 1..(i - 1) : nodes[j].depth = nodes[i].depth - 1}
    IN  IF up = {} THEN 0 ELSE CHOOSE j \in up : \A k \in up : k <= j

\* node i is a script or style element, or lies below one
RECURSIVE InScriptOrStyle(_, _)
InScriptOrStyle(nodes, i) ==
    /\ i # 0
    /\ \/ nodes[i].tag \in {"script", "style"}
       \/ InScriptOrStyle(nodes, Parent(nodes, i))

chunk_size == 8192

AlphaLower == <<"a","b","c","d","e","f","g","h","i","j","k","l","m",
                "n","o","p","q","r","s","t","u","v","w","x","y","z">>
AlphaUpper == <<"A","B","C","D","E","F","G","H","I","J","K","L","M",
                "N","O","P","Q","R","S","T","U","V","W","X","Y","Z">>

\* str.lower()
lower(s) ==
    [i \in 1..Len(s) |->
        IF s[i] \in Uppercase
        THEN AlphaLower[CHOOSE k \in 1..26 : AlphaUpper[k] = s[i]]
        ELSE s[i]]

\* sub in s
Contains(s, sub) ==
    \E i \in 1..(Len(s) - Len(sub) + 1) : SubSeq(s, i, i + Len(sub) - 1) = sub

TIMEOUT == <<"t","i","m","e","o","u","t">>
CONNECTION == <<"c","o","n","n","e","c","t","i","o","n">>

\* str(e) for the exceptions of the HTTP library.  A failed connection and a
\* timeout are reported by the connection pool, which names the host and the
\* path of the URL; too many redirects are reported without the URL.
POOL == <<"H","T","T","P","C","o","n","n","e","c","t","i","o","n","P","o","o","l","(">>
TIMED_OUT == <<")",":"," ","R","e","a","d"," ","t","i","m","e","d"," ","o","u","t",".",
               " ","(","r","e","a","d"," ","t","i","m","e","o","u","t","=","1","5",")">>
MAX_RETRIES == <<")",":"," ","M","a","x"," ","r","e","t","r","i","e","s"," ",
                 "e","x","c","e","e","d","e","d">>
REDIRECTS == <<"E","x","c","e","e","d","e","d"," ","3","0"," ",
               "r","e","d","i","r","e","c","t","s",".">>

ExcText(kind, u) ==
    CASE kind = "Timeout" -> POOL \o RemoveProtocol(u) \o TIMED_OUT
      [] kind = "ConnectionError" -> POOL \o RemoveProtocol(u) \o MAX_RETRIES
      [] kind = "TooManyRedirects" -> REDIRECTS
      [] OTHER -> <<>>

\* an exception record: its class, the stage that raised it, and for a request
\* error the category, the status code and the URL or message it carries
Exc(type, stage, category, code, about) ==
    [type |-> type, stage |-> stage, category |-> category, code |-> code, about |-> about]

\* except requests.exceptions.RequestException as e: ... (status 0: no response)
FetchError(e, u) ==
    LET text == lower(e.text)
        hasResponse == e.status # 0
    IN  IF hasResponse /\ e.status = 404
        THEN Exc("RequestException", "fetch_webpage", "Not Found", 404, u)
        ELSE IF hasResponse /\ 400 <= e.status /\ e.status < 500
        THEN Exc("RequestException", "fetch_webpage", "Client Error", e.status, u)
        ELSE IF hasResponse /\ 500 <= e.status /\ e.status < 600
        THEN Exc("RequestException", "fetch_webpage", "Server Error", e.status, u)
        ELSE IF Contains(text, TIMEOUT)
        THEN Exc("RequestException", "fetch_webpage", "Timeout", 0, u)
        ELSE IF Contains(text, CONNECTION)
        THEN Exc("RequestException", "fetch_webpage", "Connection Error", 0, u)
        ELSE Exc("RequestException", "fetch_webpage", "Network Error", 0, e.text)

\* response.raise_for_status() raises for these
IsErrorStatus(status) == 400 <= status /\ status < 600

(***************************************************************************)
(* main                                                                    *)
(***************************************************************************)
SENTINEL == <<"N","o"," ","r","e","a","d","a","b","l","e"," ","t","e","x","t"," ",
              "c","o","n","t","e","n","t"," ","f","o","u","n","d",".">>

\* if len(sys.argv) < 2 or len(sys.argv) > 3
ArgCountBad_NoUpper(n) == n < 2
ArgCountBad(n) == n < 2 \/ n > 3

\* if not text_content.strip()
NoReadableText_Never(text) == FALSE
NoReadableText(text) == Strip(text, Whitespace) = <<>>

\* isinstance(e, cls), for the classes main's handlers name
IsInstance(type, cls) ==
    \/ type = cls
    \/ cls = "Exception"
    \/ type = "RequestException" /\ cls = "IOError"

\* the line main's first matching handler prints
ErrorLine(e) ==
    IF IsInstance(e.type, "ValueError")
    THEN [prefix |-> "Error:", label |-> "Invalid URL"]
    ELSE IF IsInstance(e.type, "RequestException")
    THEN [prefix |-> "Error:", label |-> "Could not retrieve content"]
    ELSE IF IsInstance(e.type, "IOError")
    THEN [prefix |-> "Error:", label |-> "Could not write to file"]
    ELSE [prefix |-> "", label |-> "An unexpected error occurred"]

Line(label) == [prefix |-> "", label |-> label]

\* the raise reaches main's handlers; fetch_webpage's locals are gone
Raise(e) ==
    /\ raised' = e
    /\ pc' = "except"
    /\ resp' = NoResp /\ total_size' = 0 /\ pbar_n' = 0

(***************************************************************************)
(* Spec: one run of main(), with the server, the HTTP library, the parser  *)
(* and the file system choosing their outcomes.                            *)
(***************************************************************************)
MaxChunks == 2

PROG == <<"w","e","b","2","t","x","t",".","p","y">>
OUT_TXT == <<"o",".","t","x","t">>
OLD == <<"o","l","d">>

MainUrls == {<<>>, <<"/", "a">>, <<"a">>, HTTP \o <<"a">>, <<"a", "/">> \o TIMEOUT}

MainArgvs ==
    {<<PROG>>}
     \cup {<<PROG, u>> : u \in MainUrls}
     \cup {<<PROG, u, OUT_TXT>> : u \in MainUrls}
     \cup {<<PROG, u, OUT_TXT, OUT_TXT>> : u \in MainUrls}

Statuses == {200, 302, 400, 404, 499, 500, 599}
ChunkLens == {0, 1, chunk_size}

RECURSIVE Sum(_)
Sum(ns) == IF ns = <<>> THEN 0 ELSE Head(ns) + Sum(Tail(ns))

\* The Content-Length header of a body delivered as the chunks cs: none, not a
\* number, the body's length, or, under Content-Encoding: gzip, the smaller
\* length of the compressed body (iter_content yields the decompressed bytes).
ContentLengths(cs) ==
    {[kind |-> "absent", value |-> 0], [kind |-> "text", value |-> 0],
     [kind |-> "number", value |-> Sum(cs)]}
     \cup {[kind |-> "number", value |-> n] :
             n \in {m \in {chunk_size \div 2, chunk_size} : m < Sum(cs)}}

Pages ==
    {[parses |-> FALSE, nodes |-> <<>>],
     [parses |-> TRUE, nodes |-> <<>>],
     [parses |-> TRUE, nodes |-> <<[depth |-> 1, tag |-> "script", text |-> <<>>],
                                   [depth |-> 2, tag |-> "#text", text |-> <<"x">>]>>],
     [parses |-> TRUE, nodes |-> <<[depth |-> 1, tag |-> "p", text |-> <<>>],
                                   [depth |-> 2, tag |-> "#text", text |-> <<" ", "\n">>]>>],
     [parses |-> TRUE, nodes |-> <<[depth |-> 1, tag |-> "style", text |-> <<>>],
                                   [depth |-> 2, tag |-> "#text", text |-> <<"s">>],
                                   [depth |-> 1, tag |-> "p", text |-> <<>>],
                                   [depth |-> 2, tag |-> "#text",
                                    text |-> <<"a", " ", " ", "b">>]>>]}

Init ==
    /\ FnIdle
    /\ pc = "start"
    /\ argv \in MainArgvs
    /\ file \in {NoFile, [exists |-> TRUE, content |-> OLD, opens |-> 0, writes |-> 0]}
    /\ url = <<>> /\ output_filename = <<>>
    /\ resp = NoResp /\ total_size = 0 /\ pbar_n = 0 /\ html_content = NoPage
    /\ extracted = <<>> /\ text_content = <<>> /\ stdout = <<>>
    /\ exit_status = -1 /\ raised = NoExc /\ cause = NoCause /\ stages = <<>>

\* main, lines 216-225: the argument count, print_usage, url and output_filename
\* (None is <<>>, a given name is <<name>>)
CheckArgs ==
    /\ pc = "start"
    /\ IF ArgCountBad(Len(argv))
       THEN /\ stdout' = stdout \o <<Line("Usage"), Line("  URL"), Line("  output_filename.txt")>>
            /\ exit_status' = 1
            /\ pc' = "exit"
            /\ UNCHANGED <<url, output_filename>>
       ELSE /\ url' = argv[2]
            /\ output_filename' = IF Len(argv) = 3 THEN <<argv[3]>> ELSE <<>>
            /\ pc' = "validate"
            /\ UNCHANGED <<stdout, exit_status>>
    /\ UNCHANGED <<argv, resp, total_size, pbar_n, html_content, extracted, text_content,
                   file, raised, cause, stages, fnVars>>

\* main, lines 229-234: validate_url, then the default filename
Validate ==
    /\ pc = "validate"
    /\ LET r == validate_url(url)
       IN  IF ~r.ok
           THEN /\ Raise(Exc("ValueError", "validate_url", "none", 0, <<>>))
                /\ stages' = stages \o <<"validate_url">>
                /\ UNCHANGED <<url, output_filename, stdout>>
           ELSE /\ url' = r.value
                /\ IF output_filename = <<>>
                   THEN /\ output_filename' = <<sanitize_filename(r.value)>>
                        /\ stdout' = Append(stdout, Line("Using default output filename"))
                        /\ stages' = stages \o <<"validate_url", "sanitize_filename">>
                   ELSE /\ stages' = stages \o <<"validate_url">>
                        /\ UNCHANGED <<output_filename, stdout>>
                /\ pc' = "fetch"
                /\ UNCHANGED <<raised, resp, total_size, pbar_n>>
    /\ UNCHANGED <<argv, html_content, extracted, text_content, file, exit_status,
                   cause, fnVars>>

\* fetch_webpage, lines 72-80: requests.get, raise_for_status and the
\* Content-Length header.  int() of a header that is no number raises a
\* ValueError, which the handler for request errors does not catch.
SendRequest ==
    /\ pc = "fetch"
    /\ stdout' = Append(stdout, Line("Fetching URL"))
    /\ stages' = Append(stages, "fetch_webpage")
    /\ \/ \E kind \in {"Timeout", "ConnectionError", "TooManyRedirects"} :
            LET status == IF kind = "TooManyRedirects" THEN 302 ELSE 0
            IN  /\ cause' = [kind |-> kind, status |-> status]
                /\ Raise(FetchError([status |-> status, text |-> ExcText(kind, url)], url))
       \/ \E status \in {st \in Statuses : IsErrorStatus(st)} :
            /\ cause' = [kind |-> "HTTPError", status |-> status]
            /\ Raise(FetchError([status |-> status, text |-> ExcText("HTTPError", url)], url))
       \/ \E status \in {st \in Statuses : ~IsErrorStatus(st)} :
          \E cs \in SeqsUpTo(ChunkLens, MaxChunks) :
          \E header \in ContentLengths(cs) :
            IF header.kind = "text"
            THEN /\ Raise(Exc("ValueError", "fetch_webpage", "none", 0, <<>>))
                 /\ UNCHANGED cause
            ELSE /\ resp' = [outcome |-> "response", status |-> status, chunks |-> cs]
                 /\ total_size' = header.value
                 /\ pbar_n' = 0
                 /\ pc' = "download"
                 /\ UNCHANGED <<raised, cause>>
    /\ UNCHANGED <<argv, url, output_filename, html_content, extracted, text_content,
                   file, exit_status, fnVars>>

\* fetch_webpage, lines 85-97: one chunk of response.iter_content; the two loops
\* differ only in whether the bar knows total_size
IterContent ==
    /\ pc = "download"
    /\ resp.chunks # <<>>
    /\ pbar_n' = IF Head(resp.chunks) > 0 THEN pbar_n + Head(resp.chunks) ELSE pbar_n
    /\ resp' = [resp EXCEPT !.chunks = Tail(resp.chunks)]
    /\ UNCHANGED <<pc, argv, url, output_filename, total_size, html_content, extracted,
                   text_content, file, stdout, exit_status, raised, cause, stages, fnVars>>

\* fetch_webpage, lines 87/94 and 110-125: the connection breaks or stalls
\* while the body is read
DownloadFail ==
    /\ pc = "download"
    /\ resp.chunks # <<>>
    /\ \E kind \in {"Timeout", "ConnectionError"} :
            /\ cause' = [kind |-> kind, status |-> 0]
            /\ Raise(FetchError([status |-> 0, text |-> ExcText(kind, url)], url))
    /\ UNCHANGED <<argv, url, output_filename, html_content, extracted, text_content,
                   file, stdout, exit_status, stages, fnVars>>

\* fetch_webpage, lines 99-108: decode with the declared encoding or utf-8; a
\* UnicodeDecodeError falls back to replacement, an unknown encoding raises a
\* LookupError that nothing in fetch_webpage catches
Decode ==
    /\ pc = "download"
    /\ resp.chunks = <<>>
    /\ \/ \E page \in Pages, encoding \in {"None", "utf-8", "undecodable"} :
            /\ html_content' = page
            /\ pc' = "extract"
            /\ resp' = NoResp /\ total_size' = 0 /\ pbar_n' = 0
            /\ UNCHANGED raised
       \/ /\ Raise(Exc("LookupError", "fetch_webpage", "none", 0, <<>>))
          /\ UNCHANGED html_content
    /\ UNCHANGED <<argv, url, output_filename, extracted, text_content, file, stdout,
                   exit_status, cause, stages, fnVars>>

\* main, lines 240-245: extract_text_from_html, then the fixed message for a
\* page without text
Extract ==
    /\ pc = "extract"
    /\ stages' = Append(stages, "extract_text_from_html")
    /\ LET r == extract_text_from_html(html_content)
       IN  IF ~r.ok
           THEN /\ Raise(Exc("Exception", "extract_text_from_html", "none", 0, <<>>))
                /\ stdout' = Append(stdout, Line("Parsing HTML content"))
                /\ UNCHANGED <<extracted, text_content>>
           ELSE /\ extracted' = r.value
                /\ IF NoReadableText(r.value)
                   THEN /\ text_content' = SENTINEL
                        /\ stdout' = stdout \o <<Line("Parsing HTML content"),
                                                 Line("Warning: No readable text content")>>
                   ELSE /\ text_content' = r.value
                        /\ stdout' = Append(stdout, Line("Parsing HTML content"))
                /\ pc' = "save"
                /\ UNCHANGED <<raised, resp, total_size, pbar_n>>
    /\ UNCHANGED <<argv, url, output_filename, html_content, file, exit_status, cause,
                   fnVars>>

\* save_text_to_file, lines 172-175: open(filename, 'w') creates or truncates the
\* file, or fails and leaves it alone
OpenFile ==
    /\ pc = "save"
    /\ stages' = Append(stages, "save_text_to_file")
    /\ stdout' = Append(stdout, Line("Saving text to"))
    /\ \/ /\ file' = [exists |-> TRUE, content |-> <<>>,
                      opens |-> file.opens + 1, writes |-> file.writes]
          /\ pc' = "write"
          /\ UNCHANGED <<raised, resp, total_size, pbar_n>>
       \/ \E why \in {"Permission denied", "File system error"} :
            /\ Raise(Exc("IOError", "save_text_to_file", why, 0, <<>>))
            /\ UNCHANGED file
    /\ UNCHANGED <<argv, url, output_filename, html_content, extracted, text_content,
                   exit_status, cause, fnVars>>

\* save_text_to_file, lines 176-182, and main, line 251: f.write(text) and the
\* close write the text, or fail (a full disk) with any part of it written
WriteFile ==
    /\ pc = "write"
    /\ \/ /\ file' = [file EXCEPT !.content = text_content, !.writes = file.writes + 1]
          /\ stdout' = Append(stdout, Line("Successfully saved text"))
          /\ exit_status' = 0
          /\ pc' = "exit"
          /\ UNCHANGED <<raised, resp, total_size, pbar_n>>
       \/ \E n \in {0, Len(text_content) - 1} :
            /\ file' = [file EXCEPT !.content = SubSeq(text_content, 1, n)]
            /\ Raise(Exc("IOError", "save_text_to_file", "File system error", 0, <<>>))
            /\ UNCHANGED <<stdout, exit_status>>
    /\ UNCHANGED <<argv, url, output_filename, html_content, extracted, text_content,
                   cause, stages, fnVars>>

\* main, lines 253-264: the first handler whose class matches prints its line
\* and exits with status 1
MainExcept ==
    /\ pc = "except"
    /\ stdout' = Append(stdout, ErrorLine(raised))
    /\ exit_status' = 1
    /\ pc' = "exit"
    /\ UNCHANGED <<argv, url, output_filename, resp, total_size, pbar_n, html_content,
                   extracted, text_content, file, raised, cause, stages, fnVars>>

Next ==
    \/ CheckArgs
    \/ Validate
    \/ SendRequest
    \/ IterContent
    \/ DownloadFail
    \/ Decode
    \/ Extract
    \/ OpenFile
    \/ WriteFile
    \/ MainExcept

Spec == Init /\ [][Next]_vars

(***************************************************************************)
(* Properties of a run of main()                                           *)
(***************************************************************************)
Ran(stage) == \E k \in 1..Len(stages) : stages[k] = stage

\* C1: a run that ends with status 1 has not created, truncated or written the
\* output file, and a run that ends with status 0 has opened and written it
\* exactly once.
C1_NoFileOnFailure ==
    pc = "exit" =>
        /\ exit_status = 1 => (file.opens = 0 /\ file.writes = 0)
        /\ exit_status = 0 => (file.opens = 1 /\ file.writes = 1)

\* C2: the exit status is 0 exactly when no stage raised, all four stages ran
\* and the success line was printed last; it is 1 when anything was raised; and
\* with an argument count other than 1 or 2 it is 1 after the usage text alone,
\* no stage having run.
C2_ExitStatus ==
    /\ pc # "exit" => exit_status = -1
    /\ pc = "exit" =>
        /\ exit_status \in {0, 1}
        /\ exit_status = 0 <=>
              /\ raised = NoExc
              /\ Ran("validate_url") /\ Ran("fetch_webpage")
              /\ Ran("extract_text_from_html") /\ Ran("save_text_to_file")
              /\ stdout # <<>>
              /\ stdout[Len(stdout)] = Line("Successfully saved text")
        /\ raised # NoExc => exit_status = 1
        /\ (Len(argv) - 1) \notin {1, 2} =>
              /\ exit_status = 1
              /\ stages = <<>>
              /\ stdout = <<Line("Usage"), Line("  URL"), Line("  output_filename.txt")>>

\* C2 witness: a run with one argument has ended with status 0.
C2_Witness == pc = "exit" /\ exit_status = 0 /\ Len(argv) = 2

\* the category C3 gives a request failure of this kind and status
PriorityCategory(c) ==
    IF c.status = 404 THEN "Not Found"
    ELSE IF 400 <= c.status /\ c.status < 500 THEN "Client Error"
    ELSE IF 500 <= c.status /\ c.status < 600 THEN "Server Error"
    ELSE IF c.kind = "Timeout" THEN "Timeout"
    ELSE IF c.kind = "ConnectionError" THEN "Connection Error"
    ELSE "Network Error"

\* C3: the request error fetch_webpage raises has the category its status and
\* kind give in the priority order 404, 4xx, 5xx, timeout, connection failure,
\* other; a Not Found error carries 404 and the URL.
C3_CategoryByPriority ==
    (raised.type = "RequestException" /\ raised.stage = "fetch_webpage") =>
        /\ raised.category = PriorityCategory(cause)
        /\ raised.category = "Not Found" => (raised.code = 404 /\ raised.about = url)

\* the error lines printed: those main's handlers print
ErrorLines ==
    SelectSeq(stdout,
              LAMBDA l : l.prefix = "Error:" \/ l.label = "An unexpected error occurred")

\* C4: a run in which a stage raised has printed exactly one error line, it
\* starts with "Error:", and it names the category of the stage that raised:
\* "Invalid URL" for validate_url, "Could not retrieve content" for
\* fetch_webpage, "Could not write to file" for save_text_to_file, and none of
\* these nor "An unexpected error occurred" for extract_text_from_html.
C4_ErrorLineNamesStage ==
    (pc = "exit" /\ raised # NoExc) =>
        /\ Len(ErrorLines) = 1
        /\ ErrorLines[1].prefix = "Error:"
        /\ raised.stage = "validate_url" => ErrorLines[1].label = "Invalid URL"
        /\ raised.stage = "fetch_webpage"
              => ErrorLines[1].label = "Could not retrieve content"
        /\ raised.stage = "save_text_to_file"
              => ErrorLines[1].label = "Could not write to file"
        /\ raised.stage = "extract_text_from_html"
              => ErrorLines[1].label \notin
                    {"Invalid URL", "Could not retrieve content",
                     "Could not write to file", "An unexpected error occurred"}

\* C8: once the run has reached save_text_to_file, the text to write is the
\* fixed message when the extractor's result holds nothing but whitespace and
\* the extractor's result otherwise, and a completed write has put exactly that
\* text in the file.
C8_SentinelOrExtracted ==
    Ran("save_text_to_file") =>
        LET blank == \A k \in 1..Len(extracted) : extracted[k] \in Whitespace
            expected == IF blank THEN SENTINEL ELSE extracted
        IN  /\ text_content = expected
            /\ file.writes = 1 => file.content = expected

\* C8 witness: a page without readable text was saved as the fixed message.
C8_Witness ==
    /\ pc = "exit" /\ exit_status = 0
    /\ extracted = <<>>
    /\ file.content = SENTINEL

\* C9: with a declared content length total_size > 0, the progress counter never
\* exceeds total_size while the body is read and equals it once the last chunk
\* has arrived, however the body is cut into chunks of at most 8192 bytes.
C9_ProgressReachesTotal ==
    (pc = "download" /\ total_size > 0) =>
        /\ pbar_n <= total_size
        /\ resp.chunks = <<>> => pbar_n = total_size
====
